---------------------------- MODULE Spec2Model ----------------------------
(***************************************************************************)
(* The Lazy Library: the batch loader (notion_loader.py) and the           *)
(* interactive scanner (scanner.py).                                       *)
(*                                                                         *)
(* Python values are tagged records [t, v]:                                *)
(*   None, a str (a sequence of symbols), an int, a float, a list (a       *)
(*   sequence of values), a dict (a function from str keys to values).     *)
(* A symbol is one character, or a literal of the source that the code     *)
(* never takes apart ("N/A", "title", "ISBN:"): no symbol of the alphabet  *)
(* is a piece of another, so sequence equality is string equality.         *)
(* An exception that leaves an expression is the value Exc(name).          *)
(***************************************************************************)
EXTENDS Integers, Sequences, FiniteSets, TLC

VARIABLES
    prog,        \* which specification's program this behaviour runs
    pc,          \* position of the running script (batch or scanner)
    file,        \* the identifier file: a sequence of lines
    isbns,       \* read_isbns_from_file's result
    idx,         \* index of the running for loop (identifier or row)
    google_data, \* the Google record of the current identifier
    books_data,  \* the records appended so far (scanner: book_data_list)
    calls,       \* adapter invocations so far, as <<source, isbn>> pairs
    ad,          \* the running adapter call (batch and scanner variants)
    posted,      \* create_notion_page calls so far: <<isbn, payload, status>>
    reported,    \* what process_isbns_and_update_notion printed per record
    isbn_list,   \* scanner: st.session_state.isbn_list
    shown,       \* scanner: the outcome of the last script run's "Next"
    fin,         \* arguments of the function applied (SpecRecord, SpecNormalize)
    fout         \* its results so far

vars == <<prog, pc, file, isbns, idx, google_data, books_data, calls, ad,
          posted, reported, isbn_list, shown, fin, fout>>

---------------------------------------------------------------------------
(* Python values *)

None == [t |-> "none", v |-> <<>>]

Str(s) == [t |-> "str", v |-> s]

PyInt(n) == [t |-> "int", v |-> n]

PyFloat(s) == [t |-> "float", v |-> s]

List(s) == [t |-> "list", v |-> s]

Dict(f) == [t |-> "dict", v |-> f]

Exc(name) == [t |-> "exc", v |-> name]

IsExc(x) == x.t = "exc"

K(s) == <<s>>

EmptyDict == Dict(<<>>)

\* bool(x): None, "", 0, [] and {} are falsy.  Only non-zero floats are modelled.
Truthy(x) ==
    CASE x.t = "none" -> FALSE
      [] x.t = "str" -> Len(x.v) > 0
      [] x.t = "int" -> x.v # 0
      [] x.t = "float" -> TRUE
      [] x.t = "list" -> Len(x.v) > 0
      [] x.t = "dict" -> DOMAIN x.v # {}

\* a or b
PyOr(a, b) == IF Truthy(a) THEN a ELSE b

\* x[0]
Subscript0(x) ==
    CASE x.t = "list" -> IF Len(x.v) > 0 THEN x.v[1] ELSE Exc("IndexError")
      [] x.t = "str" -> IF Len(x.v) > 0 THEN Str(<<x.v[1]>>) ELSE Exc("IndexError")
      [] x.t = "dict" -> Exc("KeyError")
      [] x.t \in {"none", "int", "float"} -> Exc("TypeError")

\* x[k] for a str key k
SubscriptKey(x, k) ==
    CASE x.t = "dict" -> IF K(k) \in DOMAIN x.v THEN x.v[K(k)] ELSE Exc("KeyError")
      [] x.t \in {"list", "str", "none", "int", "float"} -> Exc("TypeError")

\* x.get(k, default): only a dict has the method
MethodGet(x, k, default) ==
    IF x.t = "dict"
    THEN IF K(k) \in DOMAIN x.v THEN x.v[K(k)] ELSE default
    ELSE Exc("AttributeError")

RECURSIVE JoinStrs(_)
JoinStrs(seq) ==
    IF Len(seq) = 0 THEN <<>>
    ELSE IF Len(seq) = 1 THEN seq[1].v
    ELSE seq[1].v \o <<",", " ">> \o JoinStrs(Tail(seq))

\* ', '.join(x).  No modelled body carries a str or a dict where a list is
\* expected (join would iterate its characters or keys).
PyJoin(x) ==
    CASE x.t = "list" ->
            IF \A i \in DOMAIN x.v : x.v[i].t = "str"
            THEN Str(JoinStrs(x.v))
            ELSE Exc("TypeError")
      [] x.t \in {"none", "int", "float"} -> Exc("TypeError")

\* The first exception of a sequence of evaluated expressions, or None.
RECURSIVE FirstExc(_)
FirstExc(seq) ==
    IF Len(seq) = 0 THEN None
    ELSE IF IsExc(seq[1]) THEN seq[1] ELSE FirstExc(Tail(seq))

---------------------------------------------------------------------------
(* The adapters' parsing of a 200 response body *)

PartialRecord(title, authors, cover, categories, pages) ==
    [Title |-> title, Authors |-> authors, CoverURL |-> cover,
     Categories |-> categories, PageCount |-> pages]

AllAbsent == PartialRecord(None, None, None, None, None)

\* What the body of "if response.status_code == 200:" does: return a record,
\* fall through to the code after it, or raise.
Returned(rec) == [st |-> "return", rec |-> rec, exc |-> ""]

FallThrough == [st |-> "fall", rec |-> AllAbsent, exc |-> ""]

Raised(e) == [st |-> "raise", rec |-> AllAbsent, exc |-> e.v]

RecordOrRaise(title, authors, cover, categories, pages) ==
    LET e == FirstExc(<<title, authors, cover, categories, pages>>)
    IN  IF IsExc(e) THEN Raised(e)
        ELSE Returned(PartialRecord(title, authors, cover, categories, pages))

\* volume_info.get('imageLinks', {}).get('thumbnail') and
\* book_data.get('cover', {}).get('medium')
NestedGet(d, outer, inner) ==
    LET o == MethodGet(d, outer, EmptyDict)
    IN  IF IsExc(o) THEN o ELSE MethodGet(o, inner, None)

JoinField(d, k) ==
    LET l == MethodGet(d, k, List(<<>>))
    IN  IF IsExc(l) THEN l ELSE PyJoin(l)

google_parse(data) ==
    IF K("items") \notin DOMAIN data.v THEN FallThrough
    ELSE LET item == Subscript0(data.v[K("items")])
             volume_info == IF IsExc(item) THEN item
                            ELSE SubscriptKey(item, "volumeInfo")
         IN  IF IsExc(volume_info) THEN Raised(volume_info)
             ELSE RecordOrRaise(MethodGet(volume_info, "title", None),
                                JoinField(volume_info, "authors"),
                                NestedGet(volume_info, "imageLinks", "thumbnail"),
                                JoinField(volume_info, "categories"),
                                MethodGet(volume_info, "pageCount", None))

\* Faulty variant: the name is read under another key.
NameOf_OtherKey(x) == MethodGet(x, "key", Str(<<>>))

\* [x.get('name', '') for x in lst]: the first element without .get raises
NameOf(x) == MethodGet(x, "name", Str(<<>>))

NamesOf(lst) ==
    LET names == [i \in DOMAIN lst.v |-> NameOf(lst.v[i])]
        e == FirstExc(names)
    IN  IF IsExc(e) THEN e ELSE List(names)

\* if lst and isinstance(lst[0], dict): ', '.join(x.get('name', '') for x in lst)
\* else: ', '.join(lst)
JoinNamesOrStrings(lst) ==
    IF ~Truthy(lst) THEN PyJoin(lst)
    ELSE LET first == Subscript0(lst)
         IN  IF IsExc(first) THEN first
             ELSE IF first.t = "dict"
                  THEN LET names == NamesOf(lst)
                       IN  IF IsExc(names) THEN names ELSE PyJoin(names)
                  ELSE PyJoin(lst)

ol_authors(book_data) ==
    LET authors_list == MethodGet(book_data, "authors", List(<<>>))
    IN  IF IsExc(authors_list) THEN authors_list
        ELSE JoinNamesOrStrings(authors_list)

ol_subjects(book_data) ==
    LET subjects == MethodGet(book_data, "subjects", List(<<>>))
    IN  IF IsExc(subjects) THEN subjects
        ELSE JoinNamesOrStrings(subjects)

\* f'ISBN:{isbn}'
OLKey(isbn) == <<"ISBN:">> \o isbn

open_library_parse(isbn, data) ==
    IF OLKey(isbn) \notin DOMAIN data.v THEN FallThrough
    ELSE LET book_data == data.v[OLKey(isbn)]
         IN  RecordOrRaise(MethodGet(book_data, "title", None),
                           ol_authors(book_data),
                           NestedGet(book_data, "cover", "medium"),
                           ol_subjects(book_data),
                           MethodGet(book_data, "number_of_pages", None))

---------------------------------------------------------------------------
(* The reconciler *)

NA == Str(<<"N/A">>)

\* Faulty variant: the title prefers Open Library.
merge_book_data_TitleFromOL(isbn, g, o) ==
    [ISBN |-> Str(isbn),
     Title |-> PyOr(PyOr(o.Title, g.Title), NA),
     Authors |-> PyOr(PyOr(g.Authors, o.Authors), NA),
     CoverURL |-> PyOr(PyOr(g.CoverURL, o.CoverURL), NA),
     Categories |-> PyOr(PyOr(g.Categories, o.Categories), NA),
     PageCount |-> PyOr(PyOr(g.PageCount, o.PageCount), NA)]

\* The canonical record; Categories is its 'Categories/Subjects' column and
\* CoverURL its 'Cover URL' column.
merge_book_data(isbn, g, o) ==
    [ISBN |-> Str(isbn),
     Title |-> PyOr(PyOr(g.Title, o.Title), NA),
     Authors |-> PyOr(PyOr(g.Authors, o.Authors), NA),
     CoverURL |-> PyOr(PyOr(g.CoverURL, o.CoverURL), NA),
     Categories |-> PyOr(PyOr(g.Categories, o.Categories), NA),
     PageCount |-> PyOr(PyOr(g.PageCount, o.PageCount), NA)]

---------------------------------------------------------------------------
(* Response bodies *)

\* A key the body does not carry.
Absent == [t |-> "absent", v |-> <<>>]

\* The dict holding the keys of f whose value is not Absent.
DictOf(f) == Dict([k \in {j \in DOMAIN f : f[j].t # "absent"} |-> f[k]])

Isbn1 == <<"1">>

Isbn2 == <<"2">>

Isbns == {Isbn1, Isbn2}

StrA == Str(<<"a">>)

StrB == Str(<<"b">>)

Url == Str(<<"u">>)

Named(s) == Dict(K("name") :> s)

TitleOpts == {Absent, None, Str(<<"T">>)}

PageOpts == {Absent, PyInt(0), PyInt(7)}

LinkOpts(inner) == {Absent, None, EmptyDict, Dict(K(inner) :> Url)}

GoogleAuthorOpts ==
    {Absent, None, List(<<>>), List(<<StrA>>), List(<<StrA, StrB>>),
     List(<<StrA, None>>)}

GoogleCategoryOpts == {Absent, None, List(<<>>), List(<<StrB>>)}

GoogleVolumeInfos ==
    {DictOf(K("title") :> ti @@ K("authors") :> au @@ K("imageLinks") :> im
            @@ K("categories") :> ca @@ K("pageCount") :> pg) :
        ti \in TitleOpts, au \in GoogleAuthorOpts, im \in LinkOpts("thumbnail"),
        ca \in GoogleCategoryOpts, pg \in PageOpts}

GoogleItems(volume_info) ==
    Dict(K("items") :> List(<<Dict(K("volumeInfo") :> volume_info)>>))

GoogleNoMatch == Dict(K("totalItems") :> PyInt(0))

GoogleEmptyItems == Dict(K("items") :> List(<<>>))

GoogleBodies ==
    {EmptyDict, GoogleNoMatch, GoogleEmptyItems, Dict(K("items") :> None),
     Dict(K("items") :> List(<<EmptyDict>>)), GoogleItems(None)}
    \cup {GoogleItems(vi) : vi \in GoogleVolumeInfos}

OLAuthorOpts ==
    {Absent, None, List(<<>>), List(<<StrA>>), List(<<StrA, StrB>>),
     List(<<Named(StrA)>>), List(<<Named(StrA), Named(StrB)>>),
     List(<<Named(StrA), StrB>>), List(<<StrA, Named(StrB)>>),
     List(<<EmptyDict>>), List(<<Named(None)>>)}

OLSubjectOpts == {Absent, None, List(<<StrB>>), List(<<Named(StrB)>>)}

OLBookDatas ==
    {DictOf(K("title") :> ti @@ K("authors") :> au @@ K("cover") :> co
            @@ K("subjects") :> su @@ K("number_of_pages") :> pg) :
        ti \in TitleOpts, au \in OLAuthorOpts, co \in LinkOpts("medium"),
        su \in OLSubjectOpts, pg \in PageOpts}

OLBodies ==
    {EmptyDict}
    \cup {Dict(OLKey(i) :> bd) : i \in Isbns, bd \in {None, List(<<>>)}}
    \cup {Dict(OLKey(i) :> bd) : i \in Isbns, bd \in OLBookDatas}

---------------------------------------------------------------------------
(* One adapter call.  Each request is a step; its outcome is an input. *)

\* The answer to one request: none (timeout, connection error: a
\* RequestException), a status other than 200, or 200 with a body.  A body
\* is a JSON object, so response.json() returns a dict.
NetFail == [kind |-> "netfail", body |-> None]

Non200 == [kind |-> "non200", body |-> None]

Ok200(body) == [kind |-> "ok200", body |-> body]

Outcomes(bodies) == {NetFail, Non200} \cup {Ok200(b) : b \in bodies}

IdleAd ==
    [variant |-> "none", source |-> "none", isbn |-> <<>>, attempt |-> 0,
     requests |-> 0, last |-> "none", body |-> None, st |-> "idle",
     rec |-> AllAbsent, exc |-> ""]

StartCall(variant, source, isbn) ==
    [IdleAd EXCEPT !.variant = variant, !.source = source, !.isbn = isbn,
                   !.st = "running"]

GoogleAttempts == 3

OpenLibraryAttempts == 3

\* The request is sent and answered (or not): requests.get(url, ...)
Sent(a, o) ==
    [a EXCEPT !.requests = a.requests + 1, !.last = o.kind, !.body = o.body]

Return(a, rec) == [a EXCEPT !.st = "returned", !.rec = rec]

Raise(a, e) == [a EXCEPT !.st = "raised", !.exc = e]

\* After the 200 branch: return its record; or "break" and the final
\* return of the all-absent record; or the exception, which is not a
\* RequestException, leaves the function.
After200(a, parsed) ==
    CASE parsed.st = "return" -> Return(a, parsed.rec)
      [] parsed.st = "fall" -> Return(a, AllAbsent)
      [] parsed.st = "raise" -> Raise(a, parsed.exc)

\* Faulty variant: a non-200 answer is retried like a network failure.
RetryIteration_RetryNon200(a, o, parsed, attempts) ==
    CASE o.kind \in {"netfail", "non200"} ->
            IF a.attempt + 1 < attempts
            THEN [a EXCEPT !.attempt = a.attempt + 1]
            ELSE Return([a EXCEPT !.attempt = a.attempt + 1], AllAbsent)
      [] o.kind = "ok200" -> After200(a, parsed)

\* One iteration of "for attempt in range(3)" of the batch adapters.
RetryIteration(a, o, parsed, attempts) ==
    CASE o.kind = "netfail" ->
            IF a.attempt + 1 < attempts
            THEN [a EXCEPT !.attempt = a.attempt + 1]
            ELSE Return([a EXCEPT !.attempt = a.attempt + 1], AllAbsent)
      [] o.kind = "non200" -> Return(a, AllAbsent)
      [] o.kind = "ok200" -> After200(a, parsed)

fetch_from_google_books(a, o) ==
    RetryIteration(Sent(a, o), o, google_parse(o.body), GoogleAttempts)

fetch_from_open_library(a, o) ==
    RetryIteration(Sent(a, o), o, open_library_parse(a.isbn, o.body),
                   OpenLibraryAttempts)

\* The scanner's adapters: one request, no try.
SingleRequest(a, o, parsed) ==
    CASE o.kind = "netfail" -> Raise(a, "RequestException")
      [] o.kind = "non200" -> Return(a, AllAbsent)
      [] o.kind = "ok200" -> After200(a, parsed)

scanner_fetch_from_google_books(a, o) ==
    SingleRequest(Sent(a, o), o, google_parse(o.body))

scanner_fetch_from_open_library(a, o) ==
    SingleRequest(Sent(a, o), o, open_library_parse(a.isbn, o.body))

AdapterStep(a, o) ==
    CASE a.variant = "batch" /\ a.source = "google" -> fetch_from_google_books(a, o)
      [] a.variant = "batch" /\ a.source = "ol" -> fetch_from_open_library(a, o)
      [] a.variant = "scanner" /\ a.source = "google" ->
            scanner_fetch_from_google_books(a, o)
      [] a.variant = "scanner" /\ a.source = "ol" ->
            scanner_fetch_from_open_library(a, o)

BodiesOf(source) == IF source = "google" THEN GoogleBodies ELSE OLBodies

BatchIdle ==
    /\ pc = "idle" /\ file = <<>> /\ isbns = <<>> /\ idx = 0
    /\ google_data = AllAbsent /\ books_data = <<>> /\ calls = <<>>
    /\ posted = <<>> /\ reported = <<>>

ScannerIdle == isbn_list = <<>> /\ shown = <<>>

FnIdle == fin = <<>> /\ fout = <<>>

batchVars == <<pc, file, isbns, idx, google_data, books_data, calls, posted, reported>>

scannerVars == <<isbn_list, shown>>

fnVars == <<fin, fout>>

---------------------------------------------------------------------------
(* SpecAdapter: one call of one adapter, under every sequence of outcomes *)

InitAdapter ==
    /\ prog = "adapter"
    /\ \E variant \in {"batch", "scanner"}, source \in {"google", "ol"}, i \in Isbns :
          ad = StartCall(variant, source, i)
    /\ BatchIdle /\ ScannerIdle /\ FnIdle

Request ==
    /\ prog = "adapter"
    /\ ad.st = "running"
    /\ \E o \in Outcomes(BodiesOf(ad.source)) : ad' = AdapterStep(ad, o)
    /\ UNCHANGED <<prog, batchVars, scannerVars, fnVars>>

NextAdapter == Request

SpecAdapter == InitAdapter /\ [][NextAdapter]_vars

---------------------------------------------------------------------------
(* str.strip() and str.split(',') *)

Whitespace == {" ", "\n"}

RECURSIVE LStrip(_)
LStrip(s) ==
    IF Len(s) > 0 /\ s[1] \in Whitespace THEN LStrip(Tail(s)) ELSE s

RECURSIVE RStrip(_)
RStrip(s) ==
    IF Len(s) > 0 /\ s[Len(s)] \in Whitespace
    THEN RStrip(SubSeq(s, 1, Len(s) - 1))
    ELSE s

PyStrip(s) == RStrip(LStrip(s))

RECURSIVE PySplit(_)
PySplit(s) ==
    IF \A i \in DOMAIN s : s[i] # ","
    THEN <<s>>
    ELSE LET i == CHOOSE j \in DOMAIN s :
                      s[j] = "," /\ \A k \in 1..(j - 1) : s[k] # ","
         IN  <<SubSeq(s, 1, i - 1)>> \o PySplit(SubSeq(s, i + 1, Len(s)))

---------------------------------------------------------------------------
(* The sink *)

\* Faulty variant: the pieces are not stripped.
create_notion_page_NoStrip(book_data) ==
    [Title |-> book_data.Title,
     Authors |-> book_data.Authors,
     multi_select |-> PySplit(book_data.Categories.v),
     number |-> IF book_data.PageCount.t = "int" THEN book_data.PageCount
                ELSE None,
     ISBN |-> book_data.ISBN,
     Status |-> "To be read",
     cover |-> IF Truthy(book_data.CoverURL) /\ book_data.CoverURL # NA
               THEN book_data.CoverURL
               ELSE Absent]

\* The payload create_notion_page posts.  cover is Absent when the payload
\* has no "cover" key.
create_notion_page(book_data) ==
    [Title |-> book_data.Title,
     Authors |-> book_data.Authors,
     multi_select |-> LET pieces == PySplit(book_data.Categories.v)
                      IN  [i \in DOMAIN pieces |-> PyStrip(pieces[i])],
     number |-> IF book_data.PageCount.t = "int" THEN book_data.PageCount
                ELSE None,
     ISBN |-> book_data.ISBN,
     Status |-> "To be read",
     cover |-> IF Truthy(book_data.CoverURL) /\ book_data.CoverURL # NA
               THEN book_data.CoverURL
               ELSE Absent]

---------------------------------------------------------------------------
(* Spec: the batch script, process_isbns_and_update_notion *)

MaxLines == 3

Lines == {<<"1", "\n">>, <<" ", "1", " ", "\n">>, <<"2", "\n">>, <<" ", "\n">>}

Files == UNION {[1..n -> Lines] : n \in 0..MaxLines}

\* Every order a list(set(...)) can come out in.
ListsOf(S) ==
    {l \in [1..Cardinality(S) -> S] : \A i, j \in DOMAIN l : l[i] = l[j] => i = j}

NonBlank(line) == Len(PyStrip(line)) > 0

\* Faulty variant: the stripped non-blank lines in file order, with no set().
read_isbns_from_file_NoSet(f) ==
    LET kept == SelectSeq(f, NonBlank)
    IN  {[i \in DOMAIN kept |-> PyStrip(kept[i])]}

read_isbns_from_file(f) ==
    ListsOf({PyStrip(f[i]) : i \in {j \in DOMAIN f : Len(PyStrip(f[j])) > 0}})

GoogleGood ==
    GoogleItems(Dict(K("title") :> Str(<<"T">>) @@ K("authors") :> List(<<StrA>>)
                     @@ K("pageCount") :> PyInt(7)))

OLGood(isbn) ==
    Dict(OLKey(isbn) :> Dict(K("title") :> Str(<<"U">>)
                             @@ K("subjects") :> List(<<Named(StrA), Named(StrB)>>)
                             @@ K("cover") :> Dict(K("medium") :> Url)))

SmallBodies(source, isbn) ==
    IF source = "google"
    THEN {GoogleNoMatch, GoogleGood, GoogleEmptyItems}
    ELSE {EmptyDict, OLGood(isbn), Dict(OLKey(isbn) :> None)}

StatusCodes == {200, 201, 400}

\* The script has read its two credential files and calls
\* process_isbns_and_update_notion on the identifier file.
Init ==
    /\ prog = "batch"
    /\ pc = "read"
    /\ file \in Files
    /\ isbns = <<>> /\ idx = 0 /\ google_data = AllAbsent /\ books_data = <<>>
    /\ calls = <<>> /\ posted = <<>> /\ reported = <<>>
    /\ ad = IdleAd
    /\ ScannerIdle /\ FnIdle

\* isbns = read_isbns_from_file(file_path); fetch_books_data starts
ReadFile ==
    /\ pc = "read"
    /\ isbns' \in read_isbns_from_file(file)
    /\ idx' = 1
    /\ pc' = "loop"
    /\ UNCHANGED <<prog, file, google_data, books_data, calls, ad, posted, reported,
                   scannerVars, fnVars>>

\* for isbn in isbns: google_data = fetch_from_google_books(isbn) is called
CallGoogle ==
    /\ pc = "loop" /\ idx <= Len(isbns)
    /\ ad' = StartCall("batch", "google", isbns[idx])
    /\ calls' = Append(calls, <<"google", isbns[idx]>>)
    /\ pc' = "google"
    /\ UNCHANGED <<prog, file, isbns, idx, google_data, books_data, posted, reported,
                   scannerVars, fnVars>>

\* one request of the running adapter call
BatchRequest ==
    /\ pc \in {"google", "ol"} /\ ad.st = "running"
    /\ \E o \in Outcomes(SmallBodies(ad.source, ad.isbn)) : ad' = AdapterStep(ad, o)
    /\ UNCHANGED <<prog, batchVars, scannerVars, fnVars>>

\* the Google adapter returned; open_library_data = fetch_from_open_library(isbn)
CallOpenLibrary ==
    /\ pc = "google" /\ ad.st = "returned"
    /\ google_data' = ad.rec
    /\ ad' = StartCall("batch", "ol", isbns[idx])
    /\ calls' = Append(calls, <<"ol", isbns[idx]>>)
    /\ pc' = "ol"
    /\ UNCHANGED <<prog, file, isbns, idx, books_data, posted, reported,
                   scannerVars, fnVars>>

\* Faulty variant: an identifier neither source knows is skipped.
MergeAndAppend_DropAbsent ==
    /\ pc = "ol" /\ ad.st = "returned"
    /\ books_data' = IF google_data = AllAbsent /\ ad.rec = AllAbsent
                     THEN books_data
                     ELSE Append(books_data,
                                 merge_book_data(isbns[idx], google_data, ad.rec))
    /\ idx' = idx + 1
    /\ ad' = IdleAd
    /\ pc' = "loop"
    /\ UNCHANGED <<prog, file, isbns, google_data, calls, posted, reported,
                   scannerVars, fnVars>>

\* the Open Library adapter returned; merge and append
MergeAndAppend ==
    /\ pc = "ol" /\ ad.st = "returned"
    /\ books_data' = Append(books_data, merge_book_data(isbns[idx], google_data, ad.rec))
    /\ idx' = idx + 1
    /\ ad' = IdleAd
    /\ pc' = "loop"
    /\ UNCHANGED <<prog, file, isbns, google_data, calls, posted, reported,
                   scannerVars, fnVars>>

\* an exception left the adapter: nothing up to the script's top level catches it
AdapterRaised ==
    /\ pc \in {"google", "ol"} /\ ad.st = "raised"
    /\ pc' = "crashed"
    /\ UNCHANGED <<prog, file, isbns, idx, google_data, books_data, calls, ad, posted,
                   reported, scannerVars, fnVars>>

\* return pd.DataFrame(books_data); the publish loop starts at the first row
FetchDone ==
    /\ pc = "loop" /\ idx > Len(isbns)
    /\ idx' = 1
    /\ pc' = "publish"
    /\ UNCHANGED <<prog, file, isbns, google_data, books_data, calls, ad, posted,
                   reported, scannerVars, fnVars>>

\* Faulty variant: the loop stops at the first status that is not 200.
Publish_FailFast ==
    /\ pc = "publish" /\ idx <= Len(books_data)
    /\ \E status \in StatusCodes :
          /\ posted' = Append(posted, [payload |-> create_notion_page(books_data[idx]),
                                       status |-> status])
          /\ reported' = Append(reported,
                                [ISBN |-> books_data[idx].ISBN,
                                 ok |-> status = 200])
          /\ pc' = IF status = 200 THEN "publish" ELSE "done"
    /\ idx' = idx + 1
    /\ UNCHANGED <<prog, file, isbns, google_data, books_data, calls, ad,
                   scannerVars, fnVars>>

\* one row of "for _, book_data in books_df.iterrows()": the POST is answered
\* with a status and a JSON body
Publish ==
    /\ pc = "publish" /\ idx <= Len(books_data)
    /\ \E status \in StatusCodes :
          /\ posted' = Append(posted, [payload |-> create_notion_page(books_data[idx]),
                                       status |-> status])
          /\ reported' = Append(reported,
                                [ISBN |-> books_data[idx].ISBN,
                                 ok |-> status = 200])
    /\ idx' = idx + 1
    /\ UNCHANGED <<prog, pc, file, isbns, google_data, books_data, calls, ad,
                   scannerVars, fnVars>>

\* requests.post raises (no answer at all), or the answer's body is not JSON
\* and response.json() raises: nothing catches it
PublishRaised ==
    /\ pc = "publish" /\ idx <= Len(books_data)
    /\ pc' = "crashed"
    /\ UNCHANGED <<prog, file, isbns, idx, google_data, books_data, calls, ad, posted,
                   reported, scannerVars, fnVars>>

\* return books_df
Finish ==
    /\ pc = "publish" /\ idx > Len(books_data)
    /\ pc' = "done"
    /\ UNCHANGED <<prog, file, isbns, idx, google_data, books_data, calls, ad, posted,
                   reported, scannerVars, fnVars>>

Next ==
    \/ ReadFile
    \/ CallGoogle
    \/ BatchRequest
    \/ CallOpenLibrary
    \/ MergeAndAppend
    \/ AdapterRaised
    \/ FetchDone
    \/ Publish
    \/ PublishRaised
    \/ Finish

Spec == Init /\ [][Next]_vars

---------------------------------------------------------------------------
(* Claims about one adapter call (SpecAdapter) *)

\* The retry loop alone: at most 3 requests, each but the last a network
\* failure, and the all-absent record after the third failure.
RetryLoopBounded ==
    ad.variant = "batch" =>
        /\ ad.requests <= 3
        /\ ad.requests = ad.attempt + (IF ad.last \in {"non200", "ok200"} THEN 1 ELSE 0)
        /\ ad.attempt <= 3
        /\ ad.attempt = 3 => ad.st = "returned" /\ ad.rec = AllAbsent

\* C2: a batch adapter issues at most 3 requests, a further one only after a
\* network-level failure of the previous one, returns the all-absent record
\* when all 3 fail at network level, and never raises, whatever the outcomes
\* (network failure, non-200, 200) of its attempts.
C2_RetryNeverRaises ==
    ad.variant = "batch" => RetryLoopBounded /\ ad.st # "raised"

\* C5 as stated: after a non-200 answer the adapter has returned the
\* all-absent record, without raising, having issued exactly one request.
C5_ExactlyOneRequest ==
    ad.last = "non200" =>
        /\ ad.st = "returned" /\ ad.rec = AllAbsent
        /\ ad.requests = 1

\* C5 as amended: after a non-200 answer the adapter has returned the
\* all-absent record, without raising, and sends nothing further; the
\* non-200 answer was to the only request of an interactive adapter, and to
\* the request that follows the network failures (at most 2) of a batch one.
C5_NoRetryAfterNon200 ==
    ad.last = "non200" =>
        /\ ad.st = "returned" /\ ad.rec = AllAbsent
        /\ ad.variant = "scanner" => ad.requests = 1
        /\ ad.variant = "batch" => ad.requests = ad.attempt + 1 /\ ad.attempt <= 2

C5_Witness ==
    /\ ad.variant = "batch" /\ ad.source = "ol"
    /\ ad.last = "non200" /\ ad.requests = 3 /\ ad.st = "returned"

\* C6: whatever the shape of a 200 response body, the adapter returns a
\* record with its five fields, each a value or absent, and does not raise.
C6_AnyShapeReturns ==
    ad.last = "ok200" =>
        /\ ad.st = "returned"
        /\ \A f \in DOMAIN ad.rec : ad.rec[f].t \in {"none", "str", "int"}

---------------------------------------------------------------------------
(* Claims about the batch script (Spec) *)

AllNA(isbn) ==
    [ISBN |-> Str(isbn), Title |-> NA, Authors |-> NA, CoverURL |-> NA,
     Categories |-> NA, PageCount |-> NA]

C3_Records ==
    /\ pc \in {"loop", "google", "ol"} => Len(books_data) = idx - 1
    /\ pc \in {"publish", "done"} => Len(books_data) = Len(isbns)
    /\ Len(books_data) <= Len(isbns)
    /\ \A k \in DOMAIN books_data : books_data[k].ISBN = Str(isbns[k])

C3_Appends ==
    (pc = "ol" /\ ad.st = "returned" /\ pc' # "ol") =>
        /\ Len(books_data') = Len(books_data) + 1
        /\ books_data'[idx].ISBN = Str(isbns[idx])
        /\ (google_data = AllAbsent /\ ad.rec = AllAbsent)
              => books_data'[idx] = AllNA(isbns[idx])
        /\ pc' = "loop" /\ idx' = idx + 1

\* C3: fetch_books_data returns one record per identifier, in the order of
\* its input; when both adapters return the all-absent record the
\* identifier's record is appended with its five data fields "N/A", and the
\* loop goes on to the next identifier.
C3_OneRecordPerIdentifier == []C3_Records /\ [][C3_Appends]_vars

C3_Witness ==
    /\ pc = "done" /\ Len(books_data) = 2
    /\ books_data[1] = AllNA(isbns[1])
    /\ books_data[2].Title # NA

DistinctIdentifiers(f) == {PyStrip(f[i]) : i \in DOMAIN f} \ {<<>>}

\* C4: the batch run deduplicates the identifiers of its input before any
\* fetch: each adapter is invoked at most once per identifier, and once the
\* fetching is over there is exactly one record, and one invocation of each
\* adapter, per distinct identifier.
C4_Dedup ==
    /\ \A i, j \in DOMAIN calls : calls[i] = calls[j] => i = j
    /\ pc \in {"publish", "done"} =>
          /\ Len(books_data) = Cardinality(DistinctIdentifiers(file))
          /\ {books_data[k].ISBN : k \in DOMAIN books_data}
                = {Str(i) : i \in DistinctIdentifiers(file)}
          /\ {calls[k] : k \in DOMAIN calls}
                = {"google", "ol"} \X DistinctIdentifiers(file)

\* process([i, i, j]) has run and holds 2 records
C4_Witness ==
    /\ pc = "done"
    /\ file = <<(<<"1", "\n">>), (<<"1", "\n">>), (<<"2", "\n">>)>>
    /\ Len(books_data) = 2 /\ Len(calls) = 4

C7_Posted ==
    /\ pc \in {"publish", "done"} =>
          /\ Len(posted) = idx - 1
          /\ Len(reported) = Len(posted)
          /\ \A k \in DOMAIN posted :
                /\ posted[k].payload = create_notion_page(books_data[k])
                /\ reported[k].ISBN = books_data[k].ISBN
                /\ posted[k].status \notin 200..299 => ~reported[k].ok
    /\ pc = "done" => Len(posted) = Len(books_data) /\ Len(books_data) = Len(isbns)

C7_GoesOn ==
    (pc = "publish" /\ posted' # posted) =>
        /\ pc' = "publish" /\ idx' = idx + 1
        /\ Len(posted') = Len(posted) + 1
        /\ books_data' = books_data

---------------------------------------------------------------------------
(* SpecRecord: merge_book_data, then create_notion_page, on one identifier *)

MaxCatLen == 4

CatStrings == UNION {[1..n -> {"a", ",", " "}] : n \in 0..MaxCatLen}

GoogleSide ==
    {PartialRecord(ti, au, co, ca, pg) :
        ti \in {None, Str(<<>>), Str(<<"T">>)},
        au \in {None, Str(<<>>), Str(<<"a", ",", " ", "b">>)},
        co \in {None, Str(<<>>), Url},
        ca \in {None, Str(<<>>), StrB},
        pg \in {None, PyInt(0), PyInt(7)}}

OpenLibrarySide ==
    {PartialRecord(ti, au, co, ca, pg) :
        ti \in {None, Str(<<>>), Str(<<"U">>)},
        au \in {None, Str(<<>>), Str(<<"c">>)},
        co \in {None, Str(<<>>), Str(<<"w">>)},
        ca \in {None, Str(<<>>), Str(<<"c", ",", " ", "d">>)},
        pg \in {None, PyInt(0), PyInt(9)}}

OLFull == PartialRecord(Str(<<"U">>), Str(<<"c">>), Str(<<"w">>), Str(<<"c", ",", "d">>), PyInt(9))

MergeInputs ==
    {[isbn |-> i, g |-> g, o |-> o] : i \in Isbns, g \in GoogleSide, o \in OpenLibrarySide}

PageInputs ==
    {[isbn |-> Isbn1, g |-> PartialRecord(Str(<<"T">>), StrA, co, Str(ca), pg), o |-> o] :
        co \in {None, Str(<<>>), Url, NA},
        ca \in CatStrings,
        pg \in {None, PyInt(0), PyInt(7), PyInt(-1), PyFloat(<<"3.5">>)},
        o \in {AllAbsent, OLFull}}

InitRecord ==
    /\ prog = "record"
    /\ fin \in MergeInputs \cup PageInputs
    /\ fout = <<>>
    /\ ad = IdleAd
    /\ BatchIdle /\ ScannerIdle

Merge ==
    /\ Len(fout) = 0
    /\ fout' = <<merge_book_data(fin.isbn, fin.g, fin.o)>>
    /\ UNCHANGED <<prog, batchVars, ad, scannerVars, fin>>

CreatePage ==
    /\ Len(fout) = 1
    /\ fout' = Append(fout, create_notion_page(fout[1]))
    /\ UNCHANGED <<prog, batchVars, ad, scannerVars, fin>>

NextRecord == Merge \/ CreatePage

SpecRecord == InitRecord /\ [][NextRecord]_vars

\* "truthy (not None, not empty string, not 0)"
Present(x) == x \notin {None, Str(<<>>), PyInt(0)}

Resolved(a, b) == IF Present(a) THEN a ELSE IF Present(b) THEN b ELSE NA

DataFields == {"Title", "Authors", "CoverURL", "Categories", "PageCount"}

\* C1: each of the five fields of the merged record is Google's value if it
\* is truthy, else Open Library's if it is truthy, else "N/A", each field on
\* its own and never a mix of the two; the ISBN is the identifier given.
C1_FieldPrecedence ==
    Len(fout) >= 1 =>
        /\ fout[1].ISBN = Str(fin.isbn)
        /\ \A f \in DataFields :
              /\ fout[1][f] = Resolved(fin.g[f], fin.o[f])
              /\ fout[1][f] \in {fin.g[f], fin.o[f], NA}

\* the title came from Google, the authors from Open Library, and the page
\* count (0 and None) from neither
C1_Witness ==
    /\ Len(fout) >= 1
    /\ fin.g.Title = Str(<<"T">>) /\ fin.o.Title = Str(<<"U">>)
    /\ fin.g.Authors = Str(<<>>) /\ fin.o.Authors = Str(<<"c">>)
    /\ fin.g.PageCount = PyInt(0) /\ fin.o.PageCount = None
    /\ fout[1].Title = Str(<<"T">>) /\ fout[1].Authors = Str(<<"c">>)
    /\ fout[1].PageCount = NA

CommaPositions(s) == {i \in DOMAIN s : s[i] = ","}

\* The position of the k-th comma of s; 0 before the first, Len(s) + 1 after the last.
CommaAt(s, k) ==
    IF k = 0 THEN 0
    ELSE IF k > Cardinality(CommaPositions(s)) THEN Len(s) + 1
    ELSE CHOOSE i \in CommaPositions(s) :
             Cardinality({j \in CommaPositions(s) : j < i}) = k - 1

Piece(s, k) == SubSeq(s, CommaAt(s, k - 1) + 1, CommaAt(s, k) - 1)

Trimmed(x) ==
    LET keep == {i \in DOMAIN x : x[i] \notin Whitespace}
    IN  IF keep = {} THEN <<>>
        ELSE SubSeq(x, CHOOSE i \in keep : \A j \in keep : i <= j,
                       CHOOSE i \in keep : \A j \in keep : i >= j)

\* C9: the payload's number is the record's page count when that is an int
\* and null otherwise; it has a cover exactly when the Cover URL is not
\* "N/A", and then that URL; its status is "To be read"; its tags are the
\* pieces of the categories string between the commas, each trimmed.
C9_Payload ==
    Len(fout) = 2 =>
        LET rec == fout[1]
            page == fout[2]
            cats == rec.Categories.v
        IN  /\ rec.PageCount.t = "int" => page.number = rec.PageCount
            /\ rec.PageCount.t # "int" => page.number = None
            /\ (page.cover # Absent) <=> (rec.CoverURL # NA)
            /\ page.cover # Absent => page.cover = rec.CoverURL
            /\ page.Status = "To be read"
            /\ Len(page.multi_select) = Cardinality(CommaPositions(cats)) + 1
            /\ \A k \in DOMAIN page.multi_select :
                  page.multi_select[k] = Trimmed(Piece(cats, k))

C9_Witness ==
    /\ Len(fout) = 2
    /\ fout[1].Categories = Str(<<"a", ",", " ", "a">>)
    /\ fout[2].multi_select = <<(<<"a">>), (<<"a">>)>>
    /\ fout[1].PageCount = PyInt(7) /\ fout[2].number = PyInt(7)
    /\ fout[1].CoverURL = Url /\ fout[2].cover = Url

---------------------------------------------------------------------------
(* SpecNormalize: Open Library's authors and subjects in their two shapes *)

MaxNames == 3

NameSet == {<<"a">>, <<"b">>, <<>>, <<"c", ",", " ">>}

NameLists == UNION {[1..n -> NameSet] : n \in 0..MaxNames}

AsStrings(names) == List([i \in DOMAIN names |-> Str(names[i])])

AsObjects(names) == List([i \in DOMAIN names |-> Named(Str(names[i]))])

InitNormalize ==
    /\ prog = "normalize"
    /\ \E i \in Isbns, field \in {"authors", "subjects"}, names \in NameLists :
          fin = [isbn |-> i, field |-> field, names |-> names]
    /\ fout = <<>>
    /\ ad = IdleAd
    /\ BatchIdle /\ ScannerIdle

Normalize ==
    /\ Len(fout) = 0
    /\ fout' = <<open_library_parse(fin.isbn,
                     Dict(OLKey(fin.isbn) :> Dict(K(fin.field) :> AsStrings(fin.names)))),
                 open_library_parse(fin.isbn,
                     Dict(OLKey(fin.isbn) :> Dict(K(fin.field) :> AsObjects(fin.names))))>>
    /\ UNCHANGED <<prog, batchVars, ad, scannerVars, fin>>

NextNormalize == Normalize

SpecNormalize == InitNormalize /\ [][NextNormalize]_vars

\* "n1, ..., nk"
RECURSIVE Flat(_)
Flat(names) ==
    IF Len(names) = 0 THEN <<>>
    ELSE LET front == SubSeq(names, 1, Len(names) - 1)
         IN  Flat(front) \o (IF Len(front) > 0 THEN <<",", " ">> ELSE <<>>)
                 \o names[Len(names)]

FieldOf(rec, field) == IF field = "authors" THEN rec.Authors ELSE rec.Categories

\* C8: Open Library's authors (and subjects) given as the strings n1..nk and
\* given as the objects {name: n1}..{name: nk} both come out as the string
\* "n1, ..., nk".
C8_SameFlattening ==
    Len(fout) = 2 =>
        /\ fout[1].st = "return" /\ fout[2].st = "return"
        /\ FieldOf(fout[1].rec, fin.field) = Str(Flat(fin.names))
        /\ FieldOf(fout[2].rec, fin.field) = Str(Flat(fin.names))

C8_Witness ==
    /\ Len(fout) = 2
    /\ fin.field = "authors" /\ fin.names = <<(<<"a">>), (<<"b">>)>>
    /\ fout[1].rec.Authors = Str(<<"a", ",", " ", "b">>)
    /\ fout[2].rec.Authors = Str(<<"a", ",", " ", "b">>)

---------------------------------------------------------------------------
(* SpecScanner: the Streamlit script of scanner.py.  Every interaction runs *)
(* the script from the top; isbn_list lives in the session state.  pc, idx, *)
(* google_data, books_data (book_data_list) and ad are those of the run.    *)

ScanIds == {<<"1">>, <<"2">>, <<"3">>}

\* decode_barcode's result: a str, or None when decoding raised.  Absent: the
\* camera holds no image.
ScanResults == {Absent, None, Str(<<>>)} \cup {Str(i) : i \in ScanIds}

ManualTexts == {<<>>} \cup ScanIds

Buttons == {"none", "add", "next"}

InList(x, l) == \E k \in DOMAIN l : l[k] = x

\* Faulty variant: the scanned identifier is appended without looking it up.
camera_input_AlwaysAppend(l, scanned) ==
    IF scanned # Absent /\ Truthy(scanned) THEN Append(l, scanned.v) ELSE l

\* if image_file is not None: ... isbn_list.append(scanned_isbn)
camera_input(l, scanned) ==
    IF scanned # Absent /\ Truthy(scanned) /\ ~InList(scanned.v, l)
    THEN Append(l, scanned.v)
    ELSE l

\* if st.button("Add Manual ISBN"): ... isbn_list.append(manual_isbn)
add_manual_isbn(l, manual, clicked) ==
    IF clicked = "add" /\ Len(manual) > 0 /\ ~InList(manual, l)
    THEN Append(l, manual)
    ELSE l

Shown(scanned, manual, clicked, out, df) ==
    [scanned |-> scanned, manual |-> manual, clicked |-> clicked, out |-> out, df |-> df]

InitScanner ==
    /\ prog = "scanner"
    /\ pc = "wait"
    /\ isbn_list = <<>>
    /\ shown = Shown(Absent, <<>>, "none", "none", <<>>)
    /\ file = <<>> /\ isbns = <<>> /\ idx = 0 /\ google_data = AllAbsent
    /\ books_data = <<>> /\ calls = <<>> /\ posted = <<>> /\ reported = <<>>
    /\ ad = IdleAd
    /\ FnIdle

\* One run of the script up to the "Next" button's loop.
ScriptRun ==
    /\ pc = "wait"
    /\ \E scanned \in ScanResults, manual \in ManualTexts, clicked \in Buttons :
          LET l == add_manual_isbn(camera_input(isbn_list, scanned), manual, clicked)
              looping == clicked = "next" /\ Len(l) > 0
          IN  /\ isbn_list' = l
              /\ shown' = Shown(scanned, manual, clicked,
                                IF clicked # "next" THEN "none"
                                ELSE IF Len(l) = 0 THEN "error" ELSE "running",
                                <<>>)
              /\ pc' = IF looping THEN "loop" ELSE "wait"
              /\ idx' = IF looping THEN 1 ELSE 0
    /\ UNCHANGED <<prog, file, isbns, google_data, books_data, calls, ad, posted,
                   reported, fnVars>>

ScannerCallGoogle ==
    /\ pc = "loop" /\ idx <= Len(isbn_list)
    /\ ad' = StartCall("scanner", "google", isbn_list[idx])
    /\ pc' = "google"
    /\ UNCHANGED <<prog, file, isbns, idx, google_data, books_data, calls, posted,
                   reported, scannerVars, fnVars>>

ScannerRequest ==
    /\ pc \in {"google", "ol"} /\ ad.st = "running"
    /\ \E o \in Outcomes(SmallBodies(ad.source, ad.isbn)) : ad' = AdapterStep(ad, o)
    /\ UNCHANGED <<prog, batchVars, scannerVars, fnVars>>

ScannerCallOpenLibrary ==
    /\ pc = "google" /\ ad.st = "returned"
    /\ google_data' = ad.rec
    /\ ad' = StartCall("scanner", "ol", isbn_list[idx])
    /\ pc' = "ol"
    /\ UNCHANGED <<prog, file, isbns, idx, books_data, calls, posted, reported,
                   scannerVars, fnVars>>

ScannerMerge ==
    /\ pc = "ol" /\ ad.st = "returned"
    /\ books_data' = Append(books_data,
                            merge_book_data(isbn_list[idx], google_data, ad.rec))
    /\ idx' = idx + 1
    /\ ad' = IdleAd
    /\ pc' = "loop"
    /\ UNCHANGED <<prog, file, isbns, google_data, calls, posted, reported,
                   scannerVars, fnVars>>

\* An exception left an adapter: the run ends, Streamlit shows the exception.
ScannerRaised ==
    /\ pc \in {"google", "ol"} /\ ad.st = "raised"
    /\ shown' = [shown EXCEPT !.out = "exception"]
    /\ pc' = "wait" /\ idx' = 0 /\ google_data' = AllAbsent /\ books_data' = <<>>
    /\ ad' = IdleAd
    /\ UNCHANGED <<prog, file, isbns, calls, posted, reported, isbn_list, fnVars>>

\* df = pd.DataFrame(book_data_list); st.write(...); the run ends
ScannerShow ==
    /\ pc = "loop" /\ idx > Len(isbn_list)
    /\ shown' = [shown EXCEPT !.out = "records", !.df = books_data]
    /\ pc' = "wait" /\ idx' = 0 /\ google_data' = AllAbsent /\ books_data' = <<>>
    /\ UNCHANGED <<prog, file, isbns, calls, ad, posted, reported, isbn_list, fnVars>>

NextScanner ==
    \/ ScriptRun
    \/ ScannerCallGoogle
    \/ ScannerRequest
    \/ ScannerCallOpenLibrary
    \/ ScannerMerge
    \/ ScannerRaised
    \/ ScannerShow

SpecScanner == InitScanner /\ [][NextScanner]_vars

AddNew(l, x) == IF x = <<>> \/ InList(x, l) THEN l ELSE Append(l, x)

C10_NoDuplicates ==
    /\ \A i, j \in DOMAIN isbn_list : isbn_list[i] = isbn_list[j] => i = j
    /\ \A i \in DOMAIN isbn_list : isbn_list[i] # <<>>
    /\ shown.out = "records" =>
          /\ Len(shown.df) = Len(isbn_list)
          /\ \A k \in DOMAIN shown.df : shown.df[k].ISBN = Str(isbn_list[k])

C10_Adds ==
    IF pc = "wait"
    THEN LET scanned == IF shown'.scanned.t = "str"
                        THEN AddNew(isbn_list, shown'.scanned.v)
                        ELSE isbn_list
         IN  isbn_list' = IF shown'.clicked = "add"
                          THEN AddNew(scanned, shown'.manual)
                          ELSE scanned
    ELSE isbn_list' = isbn_list

\* C10: the session list never holds an identifier twice: a script run adds
\* the scanned identifier, then the manual one, each at the end and only if
\* it is non-empty and not yet in the list (a failed scan or an empty entry
\* adds nothing), and the records "Next" shows are one per identifier of
\* the list, in the list's order.
C10_SessionListIsASet == []C10_NoDuplicates /\ [][C10_Adds]_vars

\* "Next" was pressed with an identifier scanned that the list already held
C10_Witness ==
    /\ shown.out = "records" /\ shown.clicked = "next"
    /\ Len(isbn_list) = 2 /\ shown.scanned = Str(isbn_list[1])
    /\ Len(shown.df) = 2

=============================================================================
